---- MODULE Spec2Model ----
(***************************************************************************)
(* Model of src/src/modules/VideoRenderingModule.ts: the rendering         *)
(* pipeline VideoRenderingModule.renderVideo and the RenderingQueue that   *)
(* serialises calls to it.                                                 *)
(*                                                                         *)
(* JavaScript runs every callback to its next suspension point, so one     *)
(* action is one run of code between two suspension points: a call of the  *)
(* public API, the continuation of an await, or a setTimeout callback.     *)
(*                                                                         *)
(* Two state machines share the variables.  Spec is a RenderingQueue with  *)
(* its private renderer, which is built without a progress callback.       *)
(* RenderSpec is the application's own VideoRenderingModule, built with a   *)
(* progress callback and called directly (App_Fixed.tsx); nothing stops     *)
(* the application from calling it again while a call is in flight.  The    *)
(* two objects share no state.                                              *)
(***************************************************************************)
EXTENDS Integers, Sequences, FiniteSets, TLC

\* ---------------------------------------------------------------- bounds
MaxJobs == 3        \* render requests made in one behaviour
MaxDirect == 2      \* calls of renderVideo the application makes itself
MaxClips == 1       \* longest backgroundVideos array passed in
MaxCancels == 1     \* calls of clearQueue / cancelRendering in one behaviour
MaxSpans == 2       \* longest transcriptions array passed to a pure stage
MaxVideos == 2      \* longest backgroundVideos array passed to buildTimeline
MaxWords == 3       \* longest list of spans handed to a TextLayoutEngine
MaxResults == 2     \* most videos or images one search returns
Precision == 6      \* significant bits of a number (a JavaScript number has 53)

Jobs == 1..MaxJobs
ClipCounts == 0..MaxClips

\* ------------------------------------------------------------- constants
\* the Error thrown by renderVideo's catch block
GenericError == "Failed to render video. Please try again."
\* the Error thrown by buildTimeline
NoClipsError == "No background videos available for rendering"
\* what a function declared ': void' hands to its caller
Undefined == "undefined"

VARIABLES
    queue,          \* RenderingQueue.queue: job ids, oldest first
    isProcessing,   \* RenderingQueue.isProcessing
    active,         \* jobs held by a processQueue call suspended at its await
    timers,         \* pending setTimeout(() => this.processQueue(), 100)
    via,            \* per request: "none" | "queue" (addJob) | "direct" (renderVideo)
    clips,          \* per request: backgroundVideos.length
    pc,             \* per request: where its renderVideo call stands
    events,         \* per request: percents handed to onProgressUpdate
    cause,          \* per request: the error its failing stage raised
    thrown,         \* per request: the error renderVideo's promise rejected with
    startLog,       \* queue jobs in the order processQueue shifted them
    doneLog,        \* onComplete / onError invocations, in order
    cancelLog,      \* clearQueue / cancelRendering invocations, in order
    transcriptions, \* argument of buildTimeline / prepareTextAnimations: the spans
    backgroundVideos, \* argument of buildTimeline: the array's length
    style,          \* argument of both: theme, animationType and textPosition
    timeline,       \* what buildTimeline returned or threw
    textAnimations, \* what prepareTextAnimations returned
    options,        \* argument of prepareTextAnimations: the resolution
    engine,         \* a TextLayoutEngine: videoDimensions and style
    words,          \* argument of the engine's methods: text.length of each span
    layout,         \* what calculateTextLayout and groupWordsIntoLines returned
    texts,          \* argument of extractKeywords: the text of each span, its characters
    keywords,       \* what extractKeywords returned
    apiKeys,        \* VisualBackgroundGenerator: which of its four API keys are set
    visuals,        \* a call of generateBackgroundVisuals: where it stands, what it holds
    transcription,  \* argument of an AnimationEffects method: start and end, milliseconds
    effect          \* what the AnimationEffects method returned

vars == <<queue, isProcessing, active, timers, via, clips, pc, events,
          cause, thrown, startLog, doneLog, cancelLog,
          transcriptions, backgroundVideos, style, timeline, textAnimations,
          options, engine, words, layout, texts, keywords, apiKeys, visuals,
          transcription, effect>>

\* the objects and arguments of the modules beside the renderer
generatorVars == <<texts, keywords, apiKeys, visuals>>

effectVars == <<transcription, effect>>

toolVars == <<options, engine, words, layout, generatorVars, effectVars>>

\* the arguments and results of the pure stages, which the queue never touches
pureVars == <<transcriptions, backgroundVideos, style, timeline, textAnimations, toolVars>>

renderVars == <<pc, events, cause, thrown>>

\* ------------------------------------------------------ renderVideo
\* variant: the merge stage reports a percent below the one before it
PercentDip ==
    [start |-> 0, timeline |-> 10, layers |-> 25, text |-> 40,
     merge |-> 20, transitions |-> 80, export |-> 95, complete |-> 100]

\* variant: each stage reports the percent the stage before it ended at
PercentOfStageBefore ==
    [start |-> 0, timeline |-> 0, layers |-> 10, text |-> 25,
     merge |-> 40, transitions |-> 60, export |-> 80, complete |-> 100]

\* the literal percent of each updateProgress call of renderVideo
Percent ==
    [start |-> 0, timeline |-> 10, layers |-> 25, text |-> 40,
     merge |-> 60, transitions |-> 80, export |-> 95, complete |-> 100]

Min(a, b) == IF a < b THEN a ELSE b
Max(a, b) == IF a > b THEN a ELSE b

\* Math.min(100, Math.max(0, progress))
Clamp(progress) == Min(100, Max(0, progress))

\* the queue's renderer is built without a callback; the application's
\* renderer is built with one
HasSink(v) == v = "direct"

\* updateProgress: ev is the request's event list, ps the percents of the
\* calls made in this run, in order
RECURSIVE UpdateProgress(_, _, _)
UpdateProgress(ev, v, ps) ==
    IF ps = <<>> THEN ev
    ELSE UpdateProgress(IF HasSink(v) THEN Append(ev, Clamp(Head(ps))) ELSE ev,
                        v, Tail(ps))

\* variant: buildTimeline without its guard
BuildTimelineNeverThrows(n) == FALSE

\* buildTimeline's guard: backgroundVideos.length === 0
BuildTimelineThrows(n) == n = 0

\* variant: the catch block rethrows what it caught
RenderErrorRethrow(error) == error

\* the catch block of renderVideo: what it throws for a caught error
RenderError(error) == GenericError

\* renderVideo up to its first await, for request j made through v with n clips
RenderVideo(j, v, n) ==
    IF BuildTimelineThrows(n)
    THEN /\ events' = [events EXCEPT ![j] =
                UpdateProgress(@, v, <<Percent.start, Percent.timeline>>)]
         /\ cause' = [cause EXCEPT ![j] = NoClipsError]
         /\ thrown' = [thrown EXCEPT ![j] = RenderError(NoClipsError)]
         /\ pc' = [pc EXCEPT ![j] = "rejected"]
    ELSE /\ events' = [events EXCEPT ![j] =
                UpdateProgress(@, v, <<Percent.start, Percent.timeline, Percent.layers>>)]
         /\ pc' = [pc EXCEPT ![j] = "layers"]
         /\ UNCHANGED <<cause, thrown>>

\* an awaited stage rejects with error e: the catch block runs.  The stage
\* bodies in the source are placeholders for the video processing they
\* describe; whether such a call resolves or rejects is the environment's
\* choice, and the try/catch of renderVideo is what meets a rejection.
\* variant: the catch block reports completion before it throws
StageFailsReportsComplete(j, e) ==
    /\ cause' = [cause EXCEPT ![j] = e]
    /\ thrown' = [thrown EXCEPT ![j] = RenderError(e)]
    /\ pc' = [pc EXCEPT ![j] = "rejected"]
    /\ events' = [events EXCEPT ![j] = UpdateProgress(@, via[j], <<Percent.complete>>)]

StageFails(j, e) ==
    /\ cause' = [cause EXCEPT ![j] = e]
    /\ thrown' = [thrown EXCEPT ![j] = RenderError(e)]
    /\ pc' = [pc EXCEPT ![j] = "rejected"]
    /\ UNCHANGED events

\* an awaited stage resolves: renderVideo runs on to its next await
StageDone(j, ps, next) ==
    /\ events' = [events EXCEPT ![j] = UpdateProgress(@, via[j], ps)]
    /\ pc' = [pc EXCEPT ![j] = next]
    /\ UNCHANGED <<cause, thrown>>

queueVars == <<queue, isProcessing, active, timers, via, clips, startLog, doneLog, cancelLog,
               pureVars>>

\* await this.prepareVideoLayers(...) settles
LayersSettle(j) ==
    /\ pc[j] = "layers"
    /\ \/ StageDone(j, <<Percent.text, Percent.merge>>, "merge")
       \/ StageFails(j, "prepareVideoLayers failed")
    /\ UNCHANGED queueVars

\* await this.mergeLayers(...) settles
MergeSettle(j) ==
    /\ pc[j] = "merge"
    /\ \/ StageDone(j, <<Percent.transitions>>, "transitions")
       \/ StageFails(j, "mergeLayers failed")
    /\ UNCHANGED queueVars

\* await this.addTransitions(...) settles
TransitionsSettle(j) ==
    /\ pc[j] = "transitions"
    /\ \/ StageDone(j, <<Percent.export>>, "export")
       \/ StageFails(j, "addTransitions failed")
    /\ UNCHANGED queueVars

\* await this.exportVideo(...) settles
ExportSettle(j) ==
    /\ pc[j] = "export"
    /\ \/ StageDone(j, <<Percent.complete>>, "resolved")
       \/ StageFails(j, "exportVideo failed")
    /\ UNCHANGED queueVars

\* the next unused request id: requests are numbered in the order made
NextId == Cardinality({i \in Jobs : via[i] # "none"}) + 1

\* the application calls videoRenderer.renderVideo itself
RenderDirect(n) ==
    /\ NextId \in Jobs
    /\ Cardinality({i \in Jobs : via[i] = "direct"}) < MaxDirect
    /\ via' = [via EXCEPT ![NextId] = "direct"]
    /\ clips' = [clips EXCEPT ![NextId] = n]
    /\ RenderVideo(NextId, "direct", n)
    /\ UNCHANGED <<queue, isProcessing, active, timers, startLog, doneLog, cancelLog, pureVars>>

\* ------------------------------------------------------ RenderingQueue
\* variant: this.queue.pop()
ShiftLast(q) == q[Len(q)]

\* this.queue.shift()
Shift(q) == Head(q)

Remove(q, j) == SelectSeq(q, LAMBDA x : x # j)

\* variant: processQueue returns from an empty queue without resetting
\* isProcessing
ProcessQueueStaysBusy(q, c) ==
    IF q = <<>>
    THEN /\ queue' = q
         /\ UNCHANGED <<isProcessing, active, startLog, renderVars>>
    ELSE /\ isProcessing' = TRUE
         /\ queue' = Remove(q, Shift(q))
         /\ active' = active \cup {Shift(q)}
         /\ startLog' = Append(startLog, Shift(q))
         /\ RenderVideo(Shift(q), "queue", c[Shift(q)])

\* processQueue up to its await, entered with queue contents q and the
\* clip counts c
ProcessQueue(q, c) ==
    IF q = <<>>
    THEN /\ isProcessing' = FALSE
         /\ queue' = q
         /\ UNCHANGED <<active, startLog, renderVars>>
    ELSE /\ isProcessing' = TRUE
         /\ queue' = Remove(q, Shift(q))
         /\ active' = active \cup {Shift(q)}
         /\ startLog' = Append(startLog, Shift(q))
         /\ RenderVideo(Shift(q), "queue", c[Shift(q)])

\* variant: addJob calls processQueue whatever isProcessing says
ShouldProcessAlways(ip) == TRUE

\* addJob's test before it calls processQueue
ShouldProcess(ip) == ~ip

\* addJob: the promise executor runs synchronously
AddJob(n) ==
    /\ NextId \in Jobs
    /\ via' = [via EXCEPT ![NextId] = "queue"]
    /\ clips' = [clips EXCEPT ![NextId] = n]
    /\ IF ShouldProcess(isProcessing)
       THEN ProcessQueue(Append(queue, NextId), clips')
       ELSE /\ queue' = Append(queue, NextId)
            /\ UNCHANGED <<isProcessing, active, startLog, renderVars>>
    /\ UNCHANGED <<timers, doneLog, cancelLog, pureVars>>

\* variant: the success callback falls through into the error callback
DeliverBoth(j, p) ==
    IF p = "resolved"
    THEN <<[job |-> j, kind |-> "complete", value |-> "outputPath"],
           [job |-> j, kind |-> "error", value |-> thrown[j]]>>
    ELSE <<[job |-> j, kind |-> "error", value |-> thrown[j]]>>

\* the callbacks processQueue invokes once renderVideo has settled as p
Deliver(j, p) ==
    IF p = "resolved"
    THEN <<[job |-> j, kind |-> "complete", value |-> "outputPath"]>>
    ELSE <<[job |-> j, kind |-> "error", value |-> thrown[j]]>>

\* variant: setTimeout placed inside the try block, after onComplete
ScheduleOnSuccess(t, p) == IF p = "resolved" THEN t + 1 ELSE t

\* the timers processQueue has pending after it ran its callbacks
Schedule(t, p) == t + 1

\* processQueue after its await: callback, then setTimeout
ProcessQueueResume(j) ==
    /\ j \in active
    /\ pc[j] \in {"resolved", "rejected"}
    /\ doneLog' = doneLog \o Deliver(j, pc[j])
    /\ active' = active \ {j}
    /\ timers' = Schedule(timers, pc[j])
    /\ UNCHANGED <<queue, isProcessing, via, clips, startLog, cancelLog, renderVars, pureVars>>

\* the setTimeout callback
Tick ==
    /\ timers > 0
    /\ timers' = timers - 1
    /\ ProcessQueue(queue, clips)
    /\ UNCHANGED <<via, clips, doneLog, cancelLog, pureVars>>

\* variant: clearQueue leaves the array as it is
TruncateNothing(q) == q

\* this.queue.length = 0
Truncate(q) == <<>>

Range(s) == {s[i] : i \in DOMAIN s}

\* the requests inside renderVideo or held by a suspended processQueue
Running == active \cup {j \in Jobs : pc[j] \in {"layers", "merge", "transitions", "export"}}

\* clearQueue(): void
ClearQueue ==
    /\ Len(cancelLog) < MaxCancels
    /\ queue' = Truncate(queue)
    /\ cancelLog' = Append(cancelLog,
            [op |-> "clearQueue", removed |-> Range(queue),
             running |-> Running # {}, ret |-> Undefined])
    /\ UNCHANGED <<isProcessing, active, timers, via, clips, startLog, doneLog, renderVars,
                   pureVars>>

\* variant: cancelRendering aborts the renders in flight
CancelRenderingAborts ==
    /\ Len(cancelLog) < MaxCancels
    /\ cancelLog' = Append(cancelLog,
            [op |-> "cancelRendering", removed |-> {},
             running |-> Running # {}, ret |-> Undefined])
    /\ pc' = [j \in Jobs |->
                IF pc[j] \in {"layers", "merge", "transitions", "export"}
                THEN "rejected" ELSE pc[j]]
    /\ thrown' = [j \in Jobs |->
                IF pc[j] \in {"layers", "merge", "transitions", "export"}
                THEN GenericError ELSE thrown[j]]
    /\ UNCHANGED <<queue, isProcessing, active, timers, via, clips, startLog, doneLog,
                   events, cause, pureVars>>

\* cancelRendering(): void -- only logs
CancelRendering ==
    /\ Len(cancelLog) < MaxCancels
    /\ cancelLog' = Append(cancelLog,
            [op |-> "cancelRendering", removed |-> {},
             running |-> Running # {}, ret |-> Undefined])
    /\ UNCHANGED <<queue, isProcessing, active, timers, via, clips, startLog, doneLog, renderVars,
                   pureVars>>

\* ------------------------------------------------------ specification
\* ------------------------------------------------------ numbers
(***************************************************************************)
(* A JavaScript number is a binary floating-point value: every division    *)
(* and multiplication is rounded to the nearest value with a fixed number  *)
(* of significant bits, ties to even.  The model keeps that, with          *)
(* Precision bits in place of 53.  A time is an integer count of 1/Unit;   *)
(* Unit is chosen so that every value of 4 or more with Precision          *)
(* significant bits is a whole count, and smaller values are kept to the   *)
(* 1/Unit grid.                                                            *)
(***************************************************************************)
RECURSIVE Pow2(_)
Pow2(n) == IF n <= 0 THEN 1 ELSE 2 * Pow2(n - 1)

Unit == Pow2(Precision - 3)

\* the value of a numeric expression that can be infinite or NaN: a finite
\* number n, -Infinity, or NaN
Finite(n) == [is |-> "finite", value |-> n]
NegInfinity == [is |-> "-Infinity"]
NaN == [is |-> "NaN"]

\* the spacing of the representable values around num/den
RECURSIVE Quantum(_, _, _)
Quantum(num, den, q) ==
    IF num >= Pow2(Precision) * q * den THEN Quantum(num, den, 2 * q) ELSE q

\* num/den rounded to Precision significant bits, ties to even
Rounded(num, den) ==
    LET q == Quantum(num, den, 1)
        n == num \div (den * q)
        rest == num - n * den * q
        up == \/ 2 * rest > den * q
              \/ (2 * rest = den * q /\ n % 2 = 1)
    IN  (IF up THEN n + 1 ELSE n) * q

\* a / b for a time a and a count b
Divide(a, b) == Rounded(a, b)

\* i * a for a count i and a time a
Multiply(i, a) == Rounded(i * a, 1)

\* Math.ceil of a time, as a count
Ceil(a) == (a + Unit - 1) \div Unit

\* ------------------------------------------------------ buildTimeline
\* const targetSegmentDuration = 10
targetSegmentDuration == 10

\* Math.max(...transcriptions.map(t => t.end)); Math.max() is -Infinity
TotalDuration(ts) ==
    IF ts = <<>> THEN NegInfinity
    ELSE Finite(CHOOSE m \in {ts[k].end : k \in DOMAIN ts} :
                    \A k \in DOMAIN ts : ts[k].end <= m)

\* variant: Math.round(totalDuration / targetSegmentDuration)
SegmentCountRounded(totalDuration) ==
    IF totalDuration = NegInfinity THEN NegInfinity
    ELSE Finite((2 * Divide(totalDuration.value, targetSegmentDuration) + Unit) \div (2 * Unit))

\* Math.ceil(totalDuration / targetSegmentDuration)
SegmentCount(totalDuration) ==
    IF totalDuration = NegInfinity THEN NegInfinity
    ELSE Finite(Ceil(Divide(totalDuration.value, targetSegmentDuration)))

\* totalDuration / segmentCount; -Infinity / -Infinity and 0 / 0 are NaN
ActualSegmentDuration(totalDuration, segmentCount) ==
    IF totalDuration = NegInfinity \/ segmentCount = Finite(0) THEN NaN
    ELSE Finite(Divide(totalDuration.value, segmentCount.value))

\* how often the body of 'for (let i = 0; i < segmentCount; i++)' runs
Iterations(segmentCount) ==
    IF segmentCount = NegInfinity THEN 0 ELSE segmentCount.value

\* variant: every segment gets the first video
FirstVideo(i, n) == IF n = 0 THEN Undefined ELSE 1

\* backgroundVideos[i % backgroundVideos.length], as a position 1..n in the
\* array; an index of NaN reads undefined
CycleVideo(i, n) == IF n = 0 THEN Undefined ELSE (i % n) + 1

\* transitionMap[style.theme] || { in: 'fade', out: 'fade' }
TransitionMap(theme) ==
    CASE theme = "nature" -> [in |-> "fade", out |-> "fade"]
      [] theme = "city" -> [in |-> "slide", out |-> "slide"]
      [] theme = "abstract" -> [in |-> "zoom", out |-> "zoom"]
      [] theme = "minimal" -> [in |-> "fade", out |-> "fade"]
      [] theme = "colorful" -> [in |-> "slide", out |-> "slide"]
      [] OTHER -> [in |-> "fade", out |-> "fade"]

\* variant: the rule for the first segment is missing
GetTransitionsNoFirstRule(segmentIndex, totalSegments, theme) ==
    IF segmentIndex = totalSegments - 1 THEN [in |-> "none", out |-> "fade"]
    ELSE TransitionMap(theme)

\* getTransitionsForSegment
GetTransitionsForSegment(segmentIndex, totalSegments, theme) ==
    IF segmentIndex = 0 THEN [in |-> "fade", out |-> "none"]
    ELSE IF segmentIndex = totalSegments - 1 THEN [in |-> "none", out |-> "fade"]
    ELSE TransitionMap(theme)

\* transcriptions.filter(t => t.start >= startTime && t.start < endTime),
\* as the positions of the spans kept, in order
SegmentLyrics(ts, startTime, endTime) ==
    SelectSeq([k \in DOMAIN ts |-> k],
              LAMBDA k : ts[k].start >= startTime /\ ts[k].start < endTime)

\* variant: a segment is as long as the target, not as the actual duration
SegmentOfTargetLength(ts, n, theme, totalDuration, segmentCount, actualSegmentDuration, i) ==
    LET startTime == Multiply(i, actualSegmentDuration)
        endTime == Min(startTime + targetSegmentDuration * Unit, totalDuration)
    IN  [startTime |-> startTime,
         endTime |-> endTime,
         backgroundVideo |-> CycleVideo(i, n),
         lyrics |-> SegmentLyrics(ts, startTime, endTime),
         transitions |-> GetTransitionsForSegment(i, segmentCount, theme)]

\* one turn of the loop of buildTimeline
Segment(ts, n, theme, totalDuration, segmentCount, actualSegmentDuration, i) ==
    LET startTime == Multiply(i, actualSegmentDuration)
        endTime == Min(Multiply(i + 1, actualSegmentDuration), totalDuration)
    IN  [startTime |-> startTime,
         endTime |-> endTime,
         backgroundVideo |-> CycleVideo(i, n),
         lyrics |-> SegmentLyrics(ts, startTime, endTime),
         transitions |-> GetTransitionsForSegment(i, segmentCount, theme)]

\* buildTimeline(transcriptions, backgroundVideos, style)
BuildTimeline(ts, n, theme) ==
    IF BuildTimelineThrows(n)
    THEN [called |-> TRUE, threw |-> NoClipsError, segments |-> <<>>]
    ELSE LET totalDuration == TotalDuration(ts)
             segmentCount == SegmentCount(totalDuration)
             actualSegmentDuration == ActualSegmentDuration(totalDuration, segmentCount)
         IN  [called |-> TRUE, threw |-> "nothing",
              segments |-> [i \in 1..Iterations(segmentCount) |->
                    Segment(ts, n, theme, totalDuration.value, segmentCount.value,
                            actualSegmentDuration.value, i - 1)]]

\* the span ends and starts a call is made with, in quarters of a second
QuarterSeconds == {0, 24, 48, 80, 100, 101, 172}

\* the times of the grid that are numbers: 6, 12, 20, 25 and 43 seconds always,
\* 25.25 seconds from seven significant bits on
Moments == {t \in {(x * Unit) \div 4 : x \in QuarterSeconds} : Rounded(t, 1) = t}

Spans == {[start |-> ab[1], end |-> ab[2]] :
            ab \in {x \in Moments \X Moments : x[1] <= x[2]}}

Themes == {"nature", "city", "abstract", "minimal", "colorful", "other"}

RECURSIVE SeqsUpTo(_, _)
SeqsUpTo(S, n) ==
    IF n = 0 THEN {<<>>}
    ELSE LET shorter == SeqsUpTo(S, n - 1)
         IN  shorter \cup {Append(q, x) : q \in shorter, x \in S}

\* the application calls buildTimeline
CallBuildTimeline ==
    /\ ~timeline.called
    /\ timeline' = BuildTimeline(transcriptions, backgroundVideos, style.theme)
    /\ UNCHANGED <<queue, isProcessing, active, timers, via, clips, startLog, doneLog,
                   cancelLog, renderVars, transcriptions, backgroundVideos, style,
                   textAnimations, toolVars>>

\* ------------------------------------------------------ text animations
\* a - b for two times
Subtract(a, b) == Rounded(a - b, 1)

\* const baseAnimation = { duration, startTime, endTime }
BaseAnimation(t) ==
    [duration |-> Subtract(t.end, t.start), startTime |-> t.start, endTime |-> t.end]

\* the keyframes literal of each case of the switch; time is in tenths
Keyframes(animationType) ==
    CASE animationType = "fade" ->
            <<[time |-> 0, opacity |-> 0, transform |-> "scale(1)"],
              [time |-> 1, opacity |-> 1, transform |-> "scale(1)"],
              [time |-> 9, opacity |-> 1, transform |-> "scale(1)"],
              [time |-> 10, opacity |-> 0, transform |-> "scale(1)"]>>
      [] animationType = "karaoke" ->
            <<[time |-> 0, opacity |-> 1, backgroundColor |-> "transparent"],
              [time |-> 2, opacity |-> 1, backgroundColor |-> "#FFD700"],
              [time |-> 8, opacity |-> 1, backgroundColor |-> "#FFD700"],
              [time |-> 10, opacity |-> 1, backgroundColor |-> "transparent"]>>
      [] animationType = "bounce" ->
            <<[time |-> 0, opacity |-> 0, transform |-> "scale(0.8) translateY(20px)"],
              [time |-> 3, opacity |-> 1, transform |-> "scale(1.2) translateY(-10px)"],
              [time |-> 6, opacity |-> 1, transform |-> "scale(1) translateY(0px)"],
              [time |-> 10, opacity |-> 1, transform |-> "scale(1) translateY(0px)"]>>
      [] animationType = "slide" ->
            <<[time |-> 0, opacity |-> 0, transform |-> "translateY(50px)"],
              [time |-> 3, opacity |-> 1, transform |-> "translateY(0px)"],
              [time |-> 10, opacity |-> 1, transform |-> "translateY(0px)"]>>

KnownAnimationTypes == {"fade", "karaoke", "bounce", "slide"}

\* generateTextAnimation: { ...baseAnimation, keyframes: [...] } for the four
\* cases, baseAnimation itself, which has no keyframes, for the default
GenerateTextAnimation(t, animationType) ==
    IF animationType \in KnownAnimationTypes
    THEN BaseAnimation(t) @@ [keyframes |-> Keyframes(animationType)]
    ELSE BaseAnimation(t)

\* prepareTextAnimations: one entry per span, in order
\* the share of the height, in percent, at which calculateTextPosition
\* anchors the text
HeightShare(textPosition) ==
    CASE textPosition = "top" -> 10
      [] textPosition = "center" -> 50
      [] textPosition = "bottom" -> 85
      [] OTHER -> 85

\* calculateTextPosition, in hundredths of a pixel
CalculateTextPosition(textPosition, resolution) ==
    [x |-> resolution.width * 50,
     y |-> resolution.height * HeightShare(textPosition)]

PrepareTextAnimations(ts, sty, opts) ==
    [k \in DOMAIN ts |->
        [transcription |-> k,
         animationData |-> GenerateTextAnimation(ts[k], sty.animationType),
         position |-> CalculateTextPosition(sty.textPosition, opts.resolution)]]

TextPositions == {"top", "center", "bottom", "other"}

Resolutions == {[width |-> 1280, height |-> 720], [width |-> 1920, height |-> 1080]}

AnimationTypes == KnownAnimationTypes \cup {"other"}

\* renderVideo's step 3, called on its own
CallPrepareTextAnimations ==
    /\ ~textAnimations.called
    /\ textAnimations' = [called |-> TRUE,
            list |-> PrepareTextAnimations(transcriptions, style, options)]
    /\ UNCHANGED <<queue, isProcessing, active, timers, via, clips, startLog, doneLog,
                   cancelLog, renderVars, transcriptions, backgroundVideos, style,
                   timeline, toolVars>>

\* ------------------------------------------------------ TextLayoutEngine
\* lengths are in hundredths of a pixel, widths of lines in tenths

\* this.style.fontSize * 1.5
LineHeight(eng) == eng.style.fontSize * 150

\* variant: the anchor of calculateTextPosition, whatever the index
CalculatePositionByShare(index, lineHeight, eng) ==
    [x |-> eng.videoDimensions.width * 50,
     y |-> eng.videoDimensions.height * HeightShare(eng.style.textPosition)]

\* calculatePosition
CalculatePosition(index, lineHeight, eng) ==
    [x |-> eng.videoDimensions.width * 50,
     y |-> CASE eng.style.textPosition = "top" -> 5000 + index * lineHeight
             [] eng.style.textPosition = "center" ->
                    eng.videoDimensions.height * 50 - lineHeight \div 2
             [] eng.style.textPosition = "bottom" ->
                    eng.videoDimensions.height * 100 - 15000 - index * lineHeight
             [] OTHER -> eng.videoDimensions.height * 100 - 15000]

\* calculateTextLayout: spans are named by their place in the list
CalculateTextLayout(ws, eng) ==
    [k \in DOMAIN ws |->
        [transcription |-> k,
         position |-> CalculatePosition(k - 1, LineHeight(eng), eng),
         maxWidth |-> eng.videoDimensions.width * 90]]

\* transcription.text.length * avgCharWidth
WordWidth(len, eng) == len * eng.style.fontSize * 6

\* this.videoDimensions.width * 0.8
MaxLineWidth(eng) == eng.videoDimensions.width * 8

\* variant: the test of the forEach body without 'currentLine.length > 0'
BreaksAlways(currentLine, currentLineWidth, wordWidth, eng) ==
    currentLineWidth + wordWidth > MaxLineWidth(eng)

\* the test of the forEach body of groupWordsIntoLines
Breaks(currentLine, currentLineWidth, wordWidth, eng) ==
    currentLineWidth + wordWidth > MaxLineWidth(eng) /\ Len(currentLine) > 0

\* groupWordsIntoLines from span k on
RECURSIVE GroupFrom(_, _, _, _, _, _)
GroupFrom(ws, k, lines, currentLine, currentLineWidth, eng) ==
    IF k > Len(ws)
    THEN IF Len(currentLine) > 0 THEN Append(lines, currentLine) ELSE lines
    ELSE LET wordWidth == WordWidth(ws[k], eng)
         IN  IF Breaks(currentLine, currentLineWidth, wordWidth, eng)
             THEN GroupFrom(ws, k + 1, Append(lines, currentLine), <<k>>, wordWidth, eng)
             ELSE GroupFrom(ws, k + 1, lines, Append(currentLine, k),
                            currentLineWidth + wordWidth, eng)

GroupWordsIntoLines(ws, eng) == GroupFrom(ws, 1, <<>>, <<>>, 0, eng)

FontSizes == {24, 48}

TextLengths == {3, 20, 40}

CallCalculateTextLayout ==
    /\ ~layout.laidOut
    /\ layout' = [layout EXCEPT !.laidOut = TRUE,
                                !.layouts = CalculateTextLayout(words, engine)]
    /\ UNCHANGED <<queue, isProcessing, active, timers, via, clips, startLog, doneLog,
                   cancelLog, renderVars, transcriptions, backgroundVideos, style,
                   timeline, textAnimations, options, engine, words, generatorVars,
                   effectVars>>

CallGroupWordsIntoLines ==
    /\ ~layout.grouped
    /\ layout' = [layout EXCEPT !.grouped = TRUE,
                                !.lines = GroupWordsIntoLines(words, engine)]
    /\ UNCHANGED <<queue, isProcessing, active, timers, via, clips, startLog, doneLog,
                   cancelLog, renderVars, transcriptions, backgroundVideos, style,
                   timeline, textAnimations, options, engine, words, generatorVars,
                   effectVars>>

\* ------------------------------------------------------ AnimationEffects
\* times are in milliseconds; the spans of EffectSpans make duration * 0.1 a
\* whole number of them

\* createFadeAnimation
CreateFadeAnimation(t) ==
    <<[time |-> t.start - 200, opacity |-> 0],
      [time |-> t.start, opacity |-> 1],
      [time |-> t.end, opacity |-> 1],
      [time |-> t.end + 200, opacity |-> 0]>>

\* createKaraokeAnimation
CreateKaraokeAnimation(t) ==
    LET duration == t.end - t.start
    IN  <<[time |-> t.start, backgroundColor |-> "transparent"],
          [time |-> t.start + duration \div 10, backgroundColor |-> "#FFD700"],
          [time |-> t.end - duration \div 10, backgroundColor |-> "#FFD700"],
          [time |-> t.end, backgroundColor |-> "transparent"]>>

\* createBounceAnimation
CreateBounceAnimation(t) ==
    <<[time |-> t.start - 100, transform |-> "scale(0.8) translateY(10px)"],
      [time |-> t.start, transform |-> "scale(1.2) translateY(-5px)"],
      [time |-> t.start + 100, transform |-> "scale(1) translateY(0px)"],
      [time |-> t.end, transform |-> "scale(1) translateY(0px)"]>>

\* getInitialTransform of createSlideAnimation
GetInitialTransform(direction) ==
    CASE direction = "left" -> "translateX(-100px)"
      [] direction = "right" -> "translateX(100px)"
      [] direction = "up" -> "translateY(50px)"
      [] direction = "down" -> "translateY(-50px)"
      [] OTHER -> "translateY(50px)"

\* createSlideAnimation
CreateSlideAnimation(t, direction) ==
    <<[time |-> t.start - 200, transform |-> GetInitialTransform(direction), opacity |-> 0],
      [time |-> t.start, transform |-> "translate(0px, 0px)", opacity |-> 1],
      [time |-> t.end, transform |-> "translate(0px, 0px)", opacity |-> 1]>>

Directions == {"left", "right", "up", "down"}

Milliseconds == {0, 50, 100, 1000, 1050, 6000}

EffectSpans == {[start |-> ab[1], end |-> ab[2]] :
                    ab \in {x \in Milliseconds \X Milliseconds : x[1] <= x[2]}}

effectRest == <<queue, isProcessing, active, timers, via, clips, startLog, doneLog,
                cancelLog, renderVars, transcriptions, backgroundVideos, style,
                timeline, textAnimations, options, engine, words, layout,
                generatorVars, transcription>>

CallCreateFadeAnimation ==
    /\ ~effect.called
    /\ effect' = [called |-> TRUE, type |-> "fade",
                  keyframes |-> CreateFadeAnimation(transcription)]
    /\ UNCHANGED effectRest

CallCreateKaraokeAnimation ==
    /\ ~effect.called
    /\ effect' = [called |-> TRUE, type |-> "karaoke",
                  keyframes |-> CreateKaraokeAnimation(transcription)]
    /\ UNCHANGED effectRest

CallCreateBounceAnimation ==
    /\ ~effect.called
    /\ effect' = [called |-> TRUE, type |-> "bounce",
                  keyframes |-> CreateBounceAnimation(transcription)]
    /\ UNCHANGED effectRest

CallCreateSlideAnimation(direction) ==
    /\ ~effect.called
    /\ effect' = [called |-> TRUE, type |-> "slide",
                  keyframes |-> CreateSlideAnimation(transcription, direction)]
    /\ UNCHANGED effectRest

\* no AnimationEffects method is called
NoEffect ==
    /\ transcription = [start |-> 0, end |-> 0]
    /\ effect = [called |-> FALSE, type |-> "none", keyframes |-> <<>>]

\* ------------------------------------------------------ VisualBackgroundGenerator
\* a string is the sequence of its characters

Uppercase == <<"A", "B", "C", "D", "E", "F", "G", "H", "I", "J", "K", "L", "M",
               "N", "O", "P", "Q", "R", "S", "T", "U", "V", "W", "X", "Y", "Z">>

Lowercase == <<"a", "b", "c", "d", "e", "f", "g", "h", "i", "j", "k", "l", "m",
               "n", "o", "p", "q", "r", "s", "t", "u", "v", "w", "x", "y", "z">>

Digits == {"0", "1", "2", "3", "4", "5", "6", "7", "8", "9"}

\* String.prototype.toLowerCase, one character
ToLowerCase(c) ==
    IF \E i \in DOMAIN Uppercase : Uppercase[i] = c
    THEN Lowercase[CHOOSE i \in DOMAIN Uppercase : Uppercase[i] = c]
    ELSE c

\* \w and \s of the regular expressions
IsWordChar(c) == c \in Range(Lowercase) \cup Range(Uppercase) \cup Digits \cup {"_"}
IsSpace(c) == c \in {" "}

\* transcriptions.map(t => t.text).join(' ')
RECURSIVE Join(_)
Join(ts) ==
    IF ts = <<>> THEN <<>>
    ELSE IF Len(ts) = 1 THEN ts[1]
    ELSE ts[1] \o <<" ">> \o Join(Tail(ts))

\* .replace(/[^\w\s]/g, ' ')
ReplacePunctuation(str) ==
    [i \in DOMAIN str |-> IF IsWordChar(str[i]) \/ IsSpace(str[i]) THEN str[i] ELSE " "]

\* .split(/\s+/) from character i on: pieces are the strings found so far,
\* piece the one being read
RECURSIVE SplitFrom(_, _, _, _)
SplitFrom(str, i, pieces, piece) ==
    IF i > Len(str) THEN Append(pieces, piece)
    ELSE IF IsSpace(str[i])
         THEN IF i > 1 /\ IsSpace(str[i - 1])
              THEN SplitFrom(str, i + 1, pieces, piece)
              ELSE SplitFrom(str, i + 1, Append(pieces, piece), <<>>)
         ELSE SplitFrom(str, i + 1, pieces, Append(piece, str[i]))

Split(str) == SplitFrom(str, 1, <<>>, <<>>)

stopWords ==
    {<<"t", "h", "e">>,
     <<"a">>,
     <<"a", "n">>,
     <<"a", "n", "d">>,
     <<"o", "r">>,
     <<"b", "u", "t">>,
     <<"i", "n">>,
     <<"o", "n">>,
     <<"a", "t">>,
     <<"t", "o">>,
     <<"f", "o", "r">>,
     <<"o", "f">>,
     <<"w", "i", "t", "h">>,
     <<"b", "y">>,
     <<"i", "s">>,
     <<"a", "r", "e">>,
     <<"w", "a", "s">>,
     <<"w", "e", "r", "e">>,
     <<"b", "e">>,
     <<"b", "e", "e", "n">>,
     <<"b", "e", "i", "n", "g">>,
     <<"h", "a", "v", "e">>,
     <<"h", "a", "s">>,
     <<"h", "a", "d">>,
     <<"d", "o">>,
     <<"d", "o", "e", "s">>,
     <<"d", "i", "d">>,
     <<"w", "i", "l", "l">>,
     <<"w", "o", "u", "l", "d">>,
     <<"c", "o", "u", "l", "d">>,
     <<"s", "h", "o", "u", "l", "d">>,
     <<"m", "a", "y">>,
     <<"m", "i", "g", "h", "t">>,
     <<"m", "u", "s", "t">>,
     <<"c", "a", "n">>,
     <<"i">>,
     <<"y", "o", "u">>,
     <<"h", "e">>,
     <<"s", "h", "e">>,
     <<"i", "t">>,
     <<"w", "e">>,
     <<"t", "h", "e", "y">>,
     <<"m", "e">>,
     <<"h", "i", "m">>,
     <<"h", "e", "r">>,
     <<"u", "s">>,
     <<"t", "h", "e", "m">>,
     <<"m", "y">>,
     <<"y", "o", "u", "r">>,
     <<"h", "i", "s">>,
     <<"i", "t", "s">>,
     <<"o", "u", "r">>,
     <<"t", "h", "e", "i", "r">>,
     <<"t", "h", "i", "s">>,
     <<"t", "h", "a", "t">>,
     <<"t", "h", "e", "s", "e">>,
     <<"t", "h", "o", "s", "e">>}

\* the words of the lyrics: lower case, punctuation removed, split at white
\* space, short words and stop words dropped
Words(ts) ==
    LET joined == Join(ts)
        fullText == [i \in DOMAIN joined |-> ToLowerCase(joined[i])]
    IN  SelectSeq(Split(ReplacePunctuation(fullText)),
                  LAMBDA word : Len(word) > 2 /\ word \notin stopWords)

\* wordCount.entries(): a Map lists its keys in the order they were first set
RECURSIVE Entries(_, _)
Entries(ws, found) ==
    IF ws = <<>> THEN found
    ELSE IF \E k \in DOMAIN found : found[k][1] = Head(ws)
         THEN Entries(Tail(ws),
                [k \in DOMAIN found |->
                    IF found[k][1] = Head(ws) THEN <<found[k][1], found[k][2] + 1>>
                    ELSE found[k]])
         ELSE Entries(Tail(ws), Append(found, <<Head(ws), 1>>))

\* variant: the entries are left in the order of the Map
SortNothing(entries) == entries

\* places entry e behind the entries that count as much or more
RECURSIVE Insert(_, _)
Insert(sorted, e) ==
    IF sorted = <<>> THEN <<e>>
    ELSE IF Head(sorted)[2] >= e[2] THEN <<Head(sorted)>> \o Insert(Tail(sorted), e)
    ELSE <<e>> \o sorted

\* a stable sort by falling count
RECURSIVE StableSort(_)
StableSort(entries) ==
    IF entries = <<>> THEN <<>>
    ELSE Insert(StableSort(SubSeq(entries, 1, Len(entries) - 1)), entries[Len(entries)])

\* .sort((a, b) => b[1] - a[1]): Array.prototype.sort is stable (ECMAScript 2019)
Sort(entries) == StableSort(entries)

\* .slice(0, 10)
Slice(arr, from, to) == SubSeq(arr, from + 1, Min(to, Len(arr)))

ExtractKeywords(ts) ==
    LET top == Slice(Sort(Entries(Words(ts), <<>>)), 0, 10)
    IN  [k \in DOMAIN top |-> top[k][1]]

\* the texts a span can have
Texts ==
    {<<"T", "h", "e", " ", "n", "i", "g", "h", "t", " ", "i", "s", " ", "y", "o", "u", "n", "g">>,
     <<"L", "o", "v", "e", ",", " ", "l", "o", "v", "e", " ", "m", "e", " ", "d", "o", "!">>,
     <<"d", "o", "n", "'", "t", " ", "s", "t", "o", "p", " ", "t", "h", "e", " ", "m", "u", "s", "i", "c">>,
     <<"s", "k", "y", " ", "s", "e", "a", " ", "s", "u", "n", " ", "m", "o", "o", "n", " ", "s", "t", "a", "r", " ", "r", "a", "i", "n", " ", "w", "i", "n", "d", " ", "f", "i", "r", "e">>,
     <<"g", "o", "l", "d", " ", "r", "o", "s", "e", " ", "l", "o", "v", "e", " ", "b", "l", "u", "e", " ", "l", "o", "v", "e">>,
     <<>>,
     <<" ", "i", "t", "'", "s", " ", "a", " ", "g", "o", " ">>}

CallExtractKeywords ==
    /\ ~keywords.called
    /\ keywords' = [called |-> TRUE, list |-> ExtractKeywords(texts)]
    /\ UNCHANGED <<queue, isProcessing, active, timers, via, clips, startLog, doneLog,
                   cancelLog, renderVars, transcriptions, backgroundVideos, style,
                   timeline, textAnimations, options, engine, words, layout, texts,
                   apiKeys, visuals, effectVars>>

\* ---- generateBackgroundVisuals
\* a clip is named by where it came from

\* themeModifiers[theme] || []: how many modifiers the theme has
Modifiers(theme) ==
    IF theme \in {"nature", "city", "abstract", "minimal", "colorful"} THEN 5 ELSE 0

\* combineKeywordsWithTheme: how many search terms it returns
SearchTerms(kws, theme) == Len(kws) * (1 + Modifiers(theme)) + Modifiers(theme)

\* createAIPrompts: one prompt for each of the first three keywords
Prompts(kws) == Min(3, Len(kws))

\* getFallbackVideos: fallbackUrls[style.theme] || fallbackUrls.nature
GetFallbackVideos(theme) ==
    IF theme \in {"city", "abstract", "minimal", "colorful"}
    THEN <<"fallback">>
    ELSE <<"fallback", "fallback">>

\* what a search can come back with when its key is set: up to MaxResults
\* clips of the provider, or the mock clip after an error
Found(provider) ==
    {[k \in 1..n |-> provider] : n \in 0..MaxResults} \cup {<<"mock">>}

\* the call has returned videos
Return(videos) ==
    [visuals EXCEPT !.pc = "returned", !.left = 0, !.videos = videos]

\* return backgroundVideos.slice(0, 5)
ReturnStock(videos) == Return(Slice(videos, 0, 5))

\* generateStockFootage at the head of its loop with left terms to go
NextTerm(videos, left, theme) ==
    IF left = 0 THEN ReturnStock(videos)
    ELSE [visuals EXCEPT !.pc = "pexels", !.left = left, !.videos = videos]

\* return aiVideos.length > 0 ? aiVideos : this.getFallbackVideos(style)
ReturnAI(videos, theme) ==
    Return(IF Len(videos) > 0 THEN videos ELSE GetFallbackVideos(theme))

\* generateAIVisuals at the head of its loop with left prompts to go: a turn
\* that calls no provider changes nothing, nor do the turns after it
NextPrompt(videos, left, theme) ==
    IF left = 0 THEN ReturnAI(videos, theme)
    ELSE IF apiKeys.runway
         THEN [visuals EXCEPT !.pc = "runway", !.left = left, !.videos = videos]
    ELSE IF Len(videos) = 0 /\ apiKeys.stability
         THEN [visuals EXCEPT !.pc = "stability", !.left = left, !.videos = videos]
    ELSE ReturnAI(videos, theme)

generatorRest == <<queue, isProcessing, active, timers, via, clips, startLog, doneLog,
                   cancelLog, renderVars, transcriptions, backgroundVideos, style,
                   timeline, textAnimations, options, engine, words, layout, texts,
                   keywords, apiKeys, effectVars>>

\* generateBackgroundVisuals up to its first await
GenerateBackgroundVisuals(approach) ==
    /\ visuals.pc = "idle"
    /\ LET kws == ExtractKeywords(texts)
       IN  visuals' =
            IF approach = "stock"
            THEN [NextTerm(<<>>, Min(3, SearchTerms(kws, style.theme)), style.theme)
                    EXCEPT !.approach = approach]
            ELSE [NextPrompt(<<>>, Prompts(kws), style.theme)
                    EXCEPT !.approach = approach]
    /\ UNCHANGED generatorRest

\* await this.searchPexelsVideos(term) settles
PexelsSettles(found) ==
    /\ visuals.pc = "pexels"
    /\ found \in (IF apiKeys.pexels THEN Found("pexels") ELSE {<<"mock">>})
    /\ visuals' =
        IF Len(visuals.videos \o found) < 2
        THEN [visuals EXCEPT !.pc = "unsplash", !.videos = @ \o found]
        ELSE NextTerm(visuals.videos \o found, visuals.left - 1, style.theme)
    /\ UNCHANGED generatorRest

\* await this.searchUnsplashImages(term) settles
UnsplashSettles(found) ==
    /\ visuals.pc = "unsplash"
    /\ found \in (IF apiKeys.unsplash THEN Found("unsplash") ELSE {<<"mock">>})
    /\ visuals' = NextTerm(visuals.videos \o found, visuals.left - 1, style.theme)
    /\ UNCHANGED generatorRest

\* await this.generateWithRunwayML(prompt) settles: a video, or null after
\* an error
RunwaySettles(found) ==
    /\ visuals.pc = "runway"
    /\ found \in {<<"runway">>, <<>>}
    /\ visuals' =
        IF Len(visuals.videos \o found) = 0 /\ apiKeys.stability
        THEN [visuals EXCEPT !.pc = "stability"]
        ELSE NextPrompt(visuals.videos \o found, visuals.left - 1, style.theme)
    /\ UNCHANGED generatorRest

\* await this.generateWithStableDiffusion(prompt) settles
StabilitySettles(found) ==
    /\ visuals.pc = "stability"
    /\ found \in {<<"stability">>, <<>>}
    /\ visuals' = NextPrompt(visuals.videos \o found, visuals.left - 1, style.theme)
    /\ UNCHANGED generatorRest

Approaches == {"stock", "ai-generated"}

ValidThemes == {"nature", "city", "abstract", "minimal", "colorful"}

\* no call of generateBackgroundVisuals is made
NoVisuals ==
    /\ apiKeys = [pexels |-> FALSE, unsplash |-> FALSE, runway |-> FALSE, stability |-> FALSE]
    /\ visuals = [pc |-> "idle", approach |-> "stock", left |-> 0, videos |-> <<>>]

\* no background generator is in use
NoGenerator ==
    /\ texts = <<>>
    /\ keywords = [called |-> FALSE, list |-> <<>>]
    /\ NoVisuals
    /\ NoEffect

\* no text layout engine is in use
NoEngine ==
    /\ engine = [videoDimensions |-> [width |-> 1280, height |-> 720],
                 style |-> [fontSize |-> 24, textPosition |-> "bottom"]]
    /\ words = <<>>
    /\ layout = [laidOut |-> FALSE, layouts |-> <<>>, grouped |-> FALSE, lines |-> <<>>]

\* no call of a pure stage has been made or is going to be
NoCall ==
    /\ transcriptions = <<>>
    /\ backgroundVideos = 0
    /\ style = [theme |-> "nature", animationType |-> "fade", textPosition |-> "bottom"]
    /\ timeline = [called |-> FALSE, threw |-> "nothing", segments |-> <<>>]
    /\ textAnimations = [called |-> FALSE, list |-> <<>>]
    /\ options = [resolution |-> [width |-> 1280, height |-> 720]]
    /\ NoEngine
    /\ NoGenerator

\* neither a queue nor a renderer is in use
NoMachine ==
    /\ queue = <<>>
    /\ isProcessing = FALSE
    /\ active = {}
    /\ timers = 0
    /\ via = [j \in Jobs |-> "none"]
    /\ clips = [j \in Jobs |-> 0]
    /\ pc = [j \in Jobs |-> "idle"]
    /\ events = [j \in Jobs |-> <<>>]
    /\ cause = [j \in Jobs |-> "none"]
    /\ thrown = [j \in Jobs |-> "none"]
    /\ startLog = <<>>
    /\ doneLog = <<>>
    /\ cancelLog = <<>>

Init ==
    /\ NoCall
    /\ NoMachine

Next ==
    \/ \E n \in ClipCounts : AddJob(n)
    \/ \E j \in Jobs : LayersSettle(j)
    \/ \E j \in Jobs : MergeSettle(j)
    \/ \E j \in Jobs : TransitionsSettle(j)
    \/ \E j \in Jobs : ExportSettle(j)
    \/ \E j \in Jobs : ProcessQueueResume(j)
    \/ Tick
    \/ ClearQueue
    \/ CancelRendering

Spec == Init /\ [][Next]_vars

RenderNext ==
    \/ \E n \in ClipCounts : RenderDirect(n)
    \/ \E j \in Jobs : LayersSettle(j)
    \/ \E j \in Jobs : MergeSettle(j)
    \/ \E j \in Jobs : TransitionsSettle(j)
    \/ \E j \in Jobs : ExportSettle(j)
    \/ CancelRendering

RenderSpec == Init /\ [][RenderNext]_vars

\* the queue without the cancel operations: clearQueue is not called, and
\* cancelRendering changes nothing the queue reads
LiveNext ==
    \/ \E n \in ClipCounts : AddJob(n)
    \/ \E j \in Jobs : LayersSettle(j)
    \/ \E j \in Jobs : MergeSettle(j)
    \/ \E j \in Jobs : TransitionsSettle(j)
    \/ \E j \in Jobs : ExportSettle(j)
    \/ \E j \in Jobs : ProcessQueueResume(j)
    \/ Tick

\* every awaited stage settles, the continuation of an await runs, a timer
\* fires; nobody has to submit a job
Fairness ==
    /\ \A j \in Jobs : WF_vars(LayersSettle(j))
    /\ \A j \in Jobs : WF_vars(MergeSettle(j))
    /\ \A j \in Jobs : WF_vars(TransitionsSettle(j))
    /\ \A j \in Jobs : WF_vars(ExportSettle(j))
    /\ \A j \in Jobs : WF_vars(ProcessQueueResume(j))
    /\ WF_vars(Tick)

LiveSpec == Init /\ [][LiveNext]_vars /\ Fairness

\* buildTimeline on its own, for every transcript, clip list and theme
TimelineInit ==
    /\ NoMachine
    /\ transcriptions \in SeqsUpTo(Spans, MaxSpans)
    /\ backgroundVideos \in 0..MaxVideos
    /\ style \in [theme : Themes, animationType : {"fade"}, textPosition : {"bottom"}]
    /\ timeline = [called |-> FALSE, threw |-> "nothing", segments |-> <<>>]
    /\ textAnimations = [called |-> FALSE, list |-> <<>>]
    /\ options = [resolution |-> [width |-> 1280, height |-> 720]]
    /\ NoEngine
    /\ NoGenerator

TimelineNext == CallBuildTimeline

TimelineSpec == TimelineInit /\ [][TimelineNext]_vars

\* the spans of the first twelve seconds
ShortSpans == {sp \in Spans : sp.end <= 12 * Unit}

\* prepareTextAnimations on its own, for every transcript of short spans,
\* animation type, text position and resolution
AnimationInit ==
    /\ NoMachine
    /\ transcriptions \in SeqsUpTo(ShortSpans, MaxSpans)
    /\ backgroundVideos = 0
    /\ style \in [theme : {"nature"}, animationType : AnimationTypes,
                   textPosition : TextPositions]
    /\ timeline = [called |-> FALSE, threw |-> "nothing", segments |-> <<>>]
    /\ textAnimations = [called |-> FALSE, list |-> <<>>]
    /\ options \in [resolution : Resolutions]
    /\ NoEngine
    /\ NoGenerator

AnimationNext == CallPrepareTextAnimations

AnimationSpec == AnimationInit /\ [][AnimationNext]_vars

\* a TextLayoutEngine and the renderer's prepareTextAnimations, for every
\* canvas, font size, text position and list of spans; both get the same
\* canvas and text position, and each span lasts six seconds
LayoutInit ==
    /\ NoMachine
    /\ engine \in [videoDimensions : Resolutions,
                    style : [fontSize : FontSizes, textPosition : TextPositions]]
    /\ words \in SeqsUpTo(TextLengths, MaxWords)
    /\ layout = [laidOut |-> FALSE, layouts |-> <<>>, grouped |-> FALSE, lines |-> <<>>]
    /\ transcriptions = [k \in DOMAIN words |->
                            [start |-> (k - 1) * 6 * Unit, end |-> k * 6 * Unit]]
    /\ backgroundVideos = 0
    /\ style = [theme |-> "nature", animationType |-> "fade",
                textPosition |-> engine.style.textPosition]
    /\ timeline = [called |-> FALSE, threw |-> "nothing", segments |-> <<>>]
    /\ textAnimations = [called |-> FALSE, list |-> <<>>]
    /\ options = [resolution |-> engine.videoDimensions]
    /\ NoGenerator

LayoutNext ==
    \/ CallCalculateTextLayout
    \/ CallGroupWordsIntoLines
    \/ CallPrepareTextAnimations

LayoutSpec == LayoutInit /\ [][LayoutNext]_vars

\* extractKeywords on its own, for every list of span texts
KeywordInit ==
    /\ NoMachine
    /\ transcriptions = <<>>
    /\ backgroundVideos = 0
    /\ style = [theme |-> "nature", animationType |-> "fade", textPosition |-> "bottom"]
    /\ timeline = [called |-> FALSE, threw |-> "nothing", segments |-> <<>>]
    /\ textAnimations = [called |-> FALSE, list |-> <<>>]
    /\ options = [resolution |-> [width |-> 1280, height |-> 720]]
    /\ NoEngine
    /\ texts \in SeqsUpTo(Texts, MaxSpans)
    /\ keywords = [called |-> FALSE, list |-> <<>>]
    /\ NoVisuals
    /\ NoEffect

KeywordNext == CallExtractKeywords

KeywordSpec == KeywordInit /\ [][KeywordNext]_vars

\* generateBackgroundVisuals on its own, for every set of keys, every theme
\* of the type, lyrics with and without keywords, and every answer of the
\* providers
VisualsInit ==
    /\ NoMachine
    /\ transcriptions = <<>>
    /\ backgroundVideos = 0
    /\ style \in [theme : ValidThemes, animationType : {"fade"}, textPosition : {"bottom"}]
    /\ timeline = [called |-> FALSE, threw |-> "nothing", segments |-> <<>>]
    /\ textAnimations = [called |-> FALSE, list |-> <<>>]
    /\ options = [resolution |-> [width |-> 1280, height |-> 720]]
    /\ NoEngine
    /\ texts \in SeqsUpTo(Texts, 1)
    /\ keywords = [called |-> FALSE, list |-> <<>>]
    /\ apiKeys \in [pexels : BOOLEAN, unsplash : BOOLEAN, runway : BOOLEAN,
                     stability : BOOLEAN]
    /\ visuals = [pc |-> "idle", approach |-> "stock", left |-> 0, videos |-> <<>>]
    /\ NoEffect

VisualsNext ==
    \/ \E approach \in Approaches : GenerateBackgroundVisuals(approach)
    \/ \E found \in Found("pexels") : PexelsSettles(found)
    \/ \E found \in Found("unsplash") : UnsplashSettles(found)
    \/ \E found \in {<<"runway">>, <<>>} : RunwaySettles(found)
    \/ \E found \in {<<"stability">>, <<>>} : StabilitySettles(found)

VisualsSpec == VisualsInit /\ [][VisualsNext]_vars

\* the methods of AnimationEffects on their own, for every span
EffectInit ==
    /\ NoMachine
    /\ transcriptions = <<>>
    /\ backgroundVideos = 0
    /\ style = [theme |-> "nature", animationType |-> "fade", textPosition |-> "bottom"]
    /\ timeline = [called |-> FALSE, threw |-> "nothing", segments |-> <<>>]
    /\ textAnimations = [called |-> FALSE, list |-> <<>>]
    /\ options = [resolution |-> [width |-> 1280, height |-> 720]]
    /\ NoEngine
    /\ texts = <<>>
    /\ keywords = [called |-> FALSE, list |-> <<>>]
    /\ NoVisuals
    /\ transcription \in EffectSpans
    /\ effect = [called |-> FALSE, type |-> "none", keyframes |-> <<>>]

EffectNext ==
    \/ CallCreateFadeAnimation
    \/ CallCreateKaraokeAnimation
    \/ CallCreateBounceAnimation
    \/ \E direction \in Directions : CallCreateSlideAnimation(direction)

EffectSpec == EffectInit /\ [][EffectNext]_vars

\* ------------------------------------------------------ observations
QueueJobs == {j \in Jobs : via[j] = "queue"}

\* the jobs some clearQueue call took out of the queue
Cancelled == UNION {cancelLog[i].removed : i \in DOMAIN cancelLog}

\* the callbacks job j has received
Delivered(j) == SelectSeq(doneLog, LAMBDA r : r.job = j)

DoneJobs == [i \in DOMAIN doneLog |-> doneLog[i].job]

Increasing(s) == \A a, b \in DOMAIN s : a < b => s[a] < s[b]

Last(s) == s[Len(s)]

\* getQueueStatus
GetQueueStatus ==
    [position |-> IF isProcessing THEN 1 ELSE 0,
     total |-> Len(queue) + (IF isProcessing THEN 1 ELSE 0)]

\* the lifecycle state of a request made through addJob
JobState(j) ==
    IF via[j] # "queue" THEN "none"
    ELSE IF j \in Range(queue) THEN "queued"
    ELSE IF j \in active THEN "running"
    ELSE IF Delivered(j) = <<>> THEN "cancelled"
    ELSE IF Last(Delivered(j)).kind = "complete" THEN "completed"
    ELSE "failed"

\* ------------------------------------------------------ claims

\* C1: at most one queue job is running (inside renderVideo, or held by a
\* suspended processQueue) in every reachable state.
AtMostOneRunning ==
    Cardinality(active \cup (QueueJobs \cap Running)) <= 1

\* C1 witness: a job is running in the merge stage while another waits, after
\* an earlier job has already had its callback.
AtMostOneRunningWitness ==
    \E j \in active : pc[j] = "merge" /\ queue # <<>> /\ doneLog # <<>>

\* C2: queue jobs start in submission order and receive their callbacks in
\* submission order, and a job starts only when every job submitted before it
\* (and not cleared) has had its callback.
FifoOrder ==
    /\ Increasing(startLog)
    /\ Increasing(DoneJobs)
    /\ \A j \in Range(startLog) : \A i \in QueueJobs \ Cancelled :
            i < j => i \in Range(startLog) /\ Delivered(i) # <<>>

\* C2 witness: three jobs went through the queue, the third one submitted
\* after the first had completed.
FifoOrderWitness ==
    /\ Len(doneLog) = 3
    /\ DoneJobs = <<1, 2, 3>>
    /\ cancelLog = <<>>

\* C3 (as stated): every job handed to addJob is waiting, running, or has had
\* its outcome delivered -- none has left the queue without a callback.
NoSilentDrop ==
    \A j \in QueueJobs : j \in Range(queue) \/ j \in active \/ Delivered(j) # <<>>

\* C4: a failure does not block the queue: the step that delivers a failure
\* frees the slot and leaves a processQueue tick pending, a tick that finds a
\* waiting job starts the oldest one, and jobs never wait with nothing
\* running and no tick pending.
FailureDoesNotBlock ==
    /\ [](queue # <<>> => (active # {} \/ timers > 0))
    /\ [][/\ (Len(doneLog') > Len(doneLog) /\ Last(doneLog').kind = "error")
              => (timers' = timers + 1 /\ isProcessing' /\ Last(doneLog').job \notin active')
          /\ (timers' < timers /\ queue # <<>>)
              => (active' = {Head(queue)} /\ pc'[Head(queue)] # "idle")]_vars

\* C4 witness: the first job failed and the second one, which was waiting
\* behind it when it failed, has completed.
FailureDoesNotBlockWitness ==
    /\ Len(doneLog) = 2
    /\ doneLog[1] = [job |-> 1, kind |-> "error", value |-> GenericError]
    /\ doneLog[2] = [job |-> 2, kind |-> "complete", value |-> "outputPath"]
    /\ startLog = <<1, 2>>

\* C5: every job receives at most one callback in total (so never both
\* onComplete and onError, and none after the first).
AtMostOnce ==
    \A j \in Jobs : Len(Delivered(j)) <= 1

\* C5 witness: one job has had onComplete, another onError, and the queue
\* has gone on to an empty tick afterwards.
AtMostOnceWitness ==
    /\ \E i \in DOMAIN doneLog : doneLog[i].kind = "complete"
    /\ \E i \in DOMAIN doneLog : doneLog[i].kind = "error"
    /\ ~isProcessing

\* C6: a job taken out of the queue by clearQueue is never started, never
\* gets a callback and is never queued again; a job's lifecycle only moves
\* queued -> running -> completed | failed, or queued -> cancelled.
CancelledStaysCancelled ==
    /\ [](\A j \in Cancelled :
            /\ j \notin Range(startLog)
            /\ JobState(j) = "cancelled"
            /\ pc[j] = "idle")
    /\ [][\A j \in Jobs : JobState(j)' # JobState(j) =>
            <<JobState(j), JobState(j)'>> \in
                {<<"none", "queued">>, <<"none", "running">>,
                 <<"queued", "running">>, <<"queued", "cancelled">>,
                 <<"running", "completed">>, <<"running", "failed">>}]_vars

\* C6 witness: a job was cleared while another was running, and the queue
\* has since finished that one and gone idle without starting the cleared job.
CancelledStaysCancelledWitness ==
    /\ Cancelled # {}
    /\ doneLog # <<>>
    /\ ~isProcessing
    /\ timers = 0

ProgressMonotone ==
    \A j \in Jobs :
        /\ \A a, b \in DOMAIN events[j] : a < b => events[j][a] <= events[j][b]
        /\ \A a \in DOMAIN events[j] : events[j][a] \in 0..100
        /\ (pc[j] = "resolved" /\ HasSink(via[j])) =>
                (events[j] # <<>> /\ Last(events[j]) = 100)
        /\ (pc[j] = "resolved" /\ events[j] # <<>>) => Last(events[j]) = 100

\* C8 witness: a render with a progress callback has succeeded after
\* delivering all eight events.
ProgressMonotoneWitness ==
    \E j \in Jobs : pc[j] = "resolved" /\ Len(events[j]) = 8

\* C9 (as stated): the error handed to onError is the error the failing
\* stage raised.
ErrorIsCause ==
    \A i \in DOMAIN doneLog :
        doneLog[i].kind = "error" => doneLog[i].value = cause[doneLog[i].job]

\* C9 (amended): the error handed to onError is the error renderVideo
\* rejected with, unchanged, and that is always the generic render error
\* whatever the failing stage raised.
ErrorIsGeneric ==
    \A i \in DOMAIN doneLog :
        doneLog[i].kind = "error" =>
            /\ cause[doneLog[i].job] # "none"
            /\ doneLog[i].value = thrown[doneLog[i].job]
            /\ doneLog[i].value = GenericError

\* C9 witness: a job that buildTimeline refused has had its error callback,
\* and so has a job whose awaited stage rejected.
ErrorIsGenericWitness ==
    /\ \E i \in DOMAIN doneLog :
        doneLog[i].kind = "error" /\ cause[doneLog[i].job] = NoClipsError
    /\ \E i \in DOMAIN doneLog :
        doneLog[i].kind = "error" /\ cause[doneLog[i].job] \notin {NoClipsError, "none"}

\* C10 (as stated): a queue job without clips never holds the running slot,
\* never reaches an external stage, and fails with the no-clips error.
EmptyClipsNeverRuns ==
    \A j \in QueueJobs : clips[j] = 0 =>
        /\ j \notin active
        /\ j \notin Range(startLog)
        /\ pc[j] \in {"idle", "rejected"}
        /\ \A i \in DOMAIN doneLog : doneLog[i].job = j =>
                (doneLog[i].kind = "error" /\ doneLog[i].value = NoClipsError)

\* C10 (amended): a request without clips never reaches an external stage:
\* its renderVideo call rejects in its first run, the cause being the
\* no-clips error and the rejection the generic render error; a queue job
\* gets there only by being shifted into the running slot.
EmptyClipsFailsEarly ==
    \A j \in Jobs : (via[j] # "none" /\ clips[j] = 0) =>
        /\ pc[j] \in {"idle", "rejected"}
        /\ pc[j] = "rejected" =>
                /\ cause[j] = NoClipsError
                /\ thrown[j] = GenericError
                /\ via[j] = "queue" => j \in Range(startLog)
        /\ \A i \in DOMAIN doneLog : doneLog[i].job = j =>
                (doneLog[i].kind = "error" /\ doneLog[i].value = GenericError)

\* C10 witness: a queue job without clips holds the running slot, already
\* rejected, while another job waits behind it.
EmptyClipsFailsEarlyWitness ==
    \E j \in active : clips[j] = 0 /\ pc[j] = "rejected" /\ queue # <<>>

\* ------------------------------------------------------ buildTimeline: claims
Segments == timeline.segments

\* buildTimeline has returned a timeline
Built == timeline.called /\ timeline.threw = "nothing"

\* every span has 0 <= start < end
ProperSpans ==
    \A k \in DOMAIN transcriptions :
        0 <= transcriptions[k].start /\ transcriptions[k].start < transcriptions[k].end

RECURSIVE SumLengths(_)
SumLengths(segs) ==
    IF segs = <<>> THEN 0
    ELSE (Head(segs).endTime - Head(segs).startTime) + SumLengths(Tail(segs))

\* the segments are in order, start at 0, leave no gap and overlap nowhere,
\* and none is empty
Contiguous(segs) ==
    /\ segs # <<>>
    /\ segs[1].startTime = 0
    /\ \A i \in 1..(Len(segs) - 1) : segs[i].endTime = segs[i + 1].startTime
    /\ \A i \in DOMAIN segs : segs[i].endTime > segs[i].startTime

\* C11 (as stated): for a non-empty transcript of proper spans and a
\* non-empty clip list the segments tile [0, totalDuration]: contiguous from
\* 0, the last one ending exactly at totalDuration, lengths summing to it.
TilingExact ==
    (Built /\ transcriptions # <<>> /\ ProperSpans) =>
        /\ Contiguous(Segments)
        /\ Last(Segments).endTime = TotalDuration(transcriptions).value
        /\ SumLengths(Segments) = TotalDuration(transcriptions).value

\* C11 (amended): the segments are contiguous from 0 and none is empty; the
\* last one ends at totalDuration or below it by no more than the rounding
\* of totalDuration / segmentCount and of its multiple allows (a relative
\* 2^-(Precision-2)), never above; the lengths sum to the last segment's end.
TilingUpToRounding ==
    (Built /\ transcriptions # <<>> /\ ProperSpans) =>
        LET total == TotalDuration(transcriptions).value
            lastEnd == Last(Segments).endTime
        IN  /\ Contiguous(Segments)
            /\ lastEnd <= total
            /\ (total - lastEnd) * Pow2(Precision - 2) <= total
            /\ SumLengths(Segments) = lastEnd

\* C11 witness: a timeline of five segments whose last segment ends below
\* totalDuration, and so do the summed lengths.
TilingUpToRoundingWitness ==
    /\ Built /\ ProperSpans
    /\ Len(Segments) = 5
    /\ Last(Segments).endTime < TotalDuration(transcriptions).value

\* C12 (as stated): for an empty transcript and at least one clip
\* buildTimeline returns exactly one segment, [0,0], bound to the first clip,
\* with no spans.
EmptyTranscriptOneSegment ==
    (timeline.called /\ transcriptions = <<>> /\ backgroundVideos >= 1) =>
        /\ timeline.threw = "nothing"
        /\ Len(Segments) = 1
        /\ Segments[1].startTime = 0 /\ Segments[1].endTime = 0
        /\ Segments[1].backgroundVideo = 1
        /\ Segments[1].lyrics = <<>>

\* C13: with an empty clip list buildTimeline throws the no-clips error and
\* returns no timeline, whatever the transcript.
NoClipsAlwaysThrows ==
    (timeline.called /\ backgroundVideos = 0) =>
        (timeline.threw = NoClipsError /\ Segments = <<>>)

\* C13 witness: buildTimeline was called without clips and with a transcript
\* that would have given three segments.
NoClipsAlwaysThrowsWitness ==
    /\ timeline.called /\ backgroundVideos = 0
    /\ transcriptions = <<[start |-> 0, end |-> 25 * Unit]>>

\* the segments that list span k
Owners(k) == {i \in DOMAIN Segments : k \in Range(Segments[i].lyrics)}

\* C14 (as stated, for a timeline that has segments): every span is listed
\* by exactly one segment, once: the one with startTime <= start < endTime,
\* or the last one if the span starts at the last segment's endTime.
SpanOwnership ==
    (Built /\ Segments # <<>>) =>
        \A k \in DOMAIN transcriptions :
            /\ Cardinality(Owners(k)) = 1
            /\ \A i \in Owners(k) :
                /\ Len(SelectSeq(Segments[i].lyrics, LAMBDA x : x = k)) = 1
                /\ \/ /\ Segments[i].startTime <= transcriptions[k].start
                      /\ transcriptions[k].start < Segments[i].endTime
                   \/ /\ i = Len(Segments)
                      /\ transcriptions[k].start = Segments[i].endTime

\* C15 (as stated): in a timeline of more than one segment, segment 0 has a
\* transitionOut other than none.
FirstSegmentHasOut ==
    (Built /\ Len(Segments) > 1) => Segments[1].transitions.out # "none"

\* C15 (amended): in a timeline of more than one segment, segment 0 has
\* transitionOut none and transitionIn fade, for every theme.
FirstSegmentOutNone ==
    (Built /\ Len(Segments) > 1) =>
        Segments[1].transitions = [in |-> "fade", out |-> "none"]

\* C15 witness: a timeline of three segments built for the theme city.
FirstSegmentOutNoneWitness ==
    Built /\ Len(Segments) = 3 /\ style.theme = "city"

\* C16 (as stated): the last segment of every timeline, a single-segment
\* one included, has transitionOut fade.
LastSegmentFadesOut ==
    (Built /\ Segments # <<>>) => Last(Segments).transitions.out = "fade"

\* C17: segment i (counted from 0) is bound to clips[i mod len(clips)].
CyclicAssignment ==
    (Built /\ backgroundVideos > 0) =>
        \A i \in DOMAIN Segments :
            Segments[i].backgroundVideo = ((i - 1) % backgroundVideos) + 1

\* C17 witness: five segments over two clips: the assignment wraps twice.
CyclicAssignmentWitness ==
    /\ Built /\ backgroundVideos = 2 /\ Len(Segments) = 5
    /\ Segments[3].backgroundVideo = 1 /\ Segments[4].backgroundVideo = 2

\* ------------------------------------------------------ text animations: claims

\* C18 (as stated): for an animationType that is none of the four, every
\* span gets the animation that fade gives it.
UnknownTypeIsFade ==
    (textAnimations.called /\ style.animationType \notin KnownAnimationTypes) =>
        \A k \in DOMAIN textAnimations.list :
            textAnimations.list[k].animationData =
                BaseAnimation(transcriptions[k]) @@ [keyframes |-> Keyframes("fade")]

\* ------------------------------------------------------ renderVideo: stage order

\* the percents a render with a progress callback has delivered when it
\* stands at pc: one at its start, one at the start of each stage it entered
\* (timeline-build, layer-prep, text-animation, merge, transitions, export,
\* in that order), one at completion
EmittedAt(at) ==
    CASE at = "layers" -> <<0, 10, 25>>
      [] at = "merge" -> <<0, 10, 25, 40, 60>>
      [] at = "transitions" -> <<0, 10, 25, 40, 60, 80>>
      [] at = "export" -> <<0, 10, 25, 40, 60, 80, 95>>
      [] at = "resolved" -> <<0, 10, 25, 40, 60, 80, 95, 100>>
      [] OTHER -> <<>>

IsPrefix(s, t) == Len(s) <= Len(t) /\ \A i \in DOMAIN s : s[i] = t[i]

\* C19 (as stated): the event at the start of layer-prep carries 10, of merge
\* 40 (text-animation, 25, runs before it in the same turn), of transitions
\* 60, of export 80.
StageFloorsAsStated ==
    \A j \in Jobs : HasSink(via[j]) =>
        /\ pc[j] = "layers" => Last(events[j]) = 10
        /\ pc[j] = "merge" => (Last(events[j]) = 40 /\ events[j][Len(events[j]) - 1] = 25)
        /\ pc[j] = "transitions" => Last(events[j]) = 60
        /\ pc[j] = "export" => Last(events[j]) = 80

\* C19 (amended): renderVideo drives the stages in the order timeline-build,
\* layer-prep, text-animation, merge, transitions, export; it emits 0 before
\* the first stage, then at the start of each stage 10, 25, 40, 60, 80 and 95
\* respectively, and 100 at completion.  A render that fails has emitted a
\* prefix of that sequence: 0, 10 if the timeline could not be built.
StageFloors ==
    \A j \in Jobs : HasSink(via[j]) =>
        /\ pc[j] \in {"layers", "merge", "transitions", "export", "resolved"} =>
                events[j] = EmittedAt(pc[j])
        /\ pc[j] = "rejected" =>
                /\ IsPrefix(events[j], EmittedAt("export"))
                /\ Len(events[j]) \in {2, 3, 5, 6, 7}
                /\ Len(events[j]) = 2 <=> cause[j] = NoClipsError

\* C19 witness: a render stands at its last await, in export, having emitted
\* the seven events of its start and its six stages.
StageFloorsWitness ==
    \E j \in Jobs :
        /\ HasSink(via[j]) /\ pc[j] = "export"
        /\ events[j] = <<0, 10, 25, 40, 60, 80, 95>>

\* ------------------------------------------------------ RenderingQueue: start of the next job

\* C20: the step that runs a job's terminal callback starts no job; while a
\* job is being rendered, or between its callback and the timer, the step
\* that submits a job starts none; a job that follows another is started by
\* the timer callback, a step of its own.
NextStartIsLaterStep ==
    [][ /\ doneLog' # doneLog => startLog' = startLog
        /\ (via' # via /\ isProcessing) => startLog' = startLog
        /\ (startLog' # startLog /\ isProcessing) => timers' = timers - 1
      ]_vars

\* C20 witness: the first job's callback has run, a job submitted meanwhile
\* is still queued, nothing is rendering, and the timer that will start it
\* is pending.
NextStartIsLaterStepWitness ==
    /\ Len(doneLog) = 1 /\ Len(startLog) = 1
    /\ queue # <<>> /\ active = {} /\ timers = 1 /\ isProcessing

\* ------------------------------------------------------ renderVideo: failure

\* C21: the step in which an awaited stage fails emits no event, and once
\* renderVideo has rejected it stays rejected and emits nothing more; the
\* events of a rejected render never include 100.
FailureStopsRender ==
    /\ [](\A j \in Jobs : pc[j] = "rejected" => \A a \in DOMAIN events[j] : events[j][a] # 100)
    /\ [][\A j \in Jobs :
            /\ pc[j] = "rejected" => (pc'[j] = "rejected" /\ events'[j] = events[j])
            /\ (pc[j] \in {"layers", "merge", "transitions", "export"} /\ pc'[j] = "rejected") =>
                    events'[j] = events[j]
         ]_vars

\* C21 witness: one render was rejected when its timeline could not be
\* built, after the events 0 and 10, and a render started after it has run
\* to its end meanwhile.
FailureStopsRenderWitness ==
    \E j, k \in Jobs :
        /\ j < k /\ HasSink(via[j]) /\ HasSink(via[k])
        /\ pc[j] = "rejected" /\ events[j] = <<0, 10>>
        /\ pc[k] = "resolved"

\* ------------------------------------------------------ buildTimeline: segment count

\* the length of segment i
Length(i) == Segments[i].endTime - Segments[i].startTime

\* ceil(totalDuration / 10) of the real numbers
CeilOfTenth(total) == (total + targetSegmentDuration * Unit - 1) \div (targetSegmentDuration * Unit)

Abs(x) == IF x < 0 THEN -x ELSE x

\* C22 (as stated): for totalDuration > 0 there are ceil(totalDuration / 10)
\* segments, each as long as the quotient totalDuration / segmentCount the
\* code computes, which is at most 10.
EqualSegments ==
    (Built /\ transcriptions # <<>> /\ TotalDuration(transcriptions).value > 0) =>
        LET total == TotalDuration(transcriptions).value
            count == CeilOfTenth(total)
        IN  /\ Len(Segments) = count
            /\ \A i \in DOMAIN Segments : Length(i) = Divide(total, count)
            /\ \A i \in DOMAIN Segments : Length(i) <= targetSegmentDuration * Unit

\* C22 (amended): for totalDuration > 0 there are ceil(totalDuration / 10)
\* segments; the quotient totalDuration / segmentCount the code computes is
\* at most 10, segment i runs from i times that quotient to (i+1) times it,
\* capped at totalDuration, each product rounded, and so every segment is as
\* long as the quotient up to a rounding error (a relative 2^-(Precision-2)
\* of totalDuration), not exactly.
NearlyEqualSegments ==
    (Built /\ transcriptions # <<>> /\ TotalDuration(transcriptions).value > 0) =>
        LET total == TotalDuration(transcriptions).value
            count == CeilOfTenth(total)
            actual == Divide(total, count)
        IN  /\ Len(Segments) = count
            /\ actual <= targetSegmentDuration * Unit
            /\ \A i \in DOMAIN Segments :
                /\ Segments[i].startTime = Multiply(i - 1, actual)
                /\ Segments[i].endTime = Min(Multiply(i, actual), total)
                /\ Abs(Length(i) - actual) * Pow2(Precision - 2) <= total

\* C22 witness: a transcript ending at 25 seconds gave three segments, and
\* the third is not as long as the first.
NearlyEqualSegmentsWitness ==
    /\ Built /\ transcriptions # <<>>
    /\ TotalDuration(transcriptions).value = 25 * Unit
    /\ Len(Segments) = 3
    /\ Length(3) # Length(1)

\* ------------------------------------------------------ text animations: karaoke

\* C23 (as stated): the karaoke animation of a span lasts max(end - start,
\* 0.5), so never less than half a second.
KaraokeAtLeastHalfSecond ==
    (textAnimations.called /\ style.animationType = "karaoke") =>
        \A k \in DOMAIN textAnimations.list :
            textAnimations.list[k].animationData.duration =
                Max(transcriptions[k].end - transcriptions[k].start, Unit \div 2)

\* ------------------------------------------------------ text position and layout

\* the vertical anchor of the claim: a share of the height
AnchorOfShare(textPosition, height) ==
    CASE textPosition = "top" -> height * 10
      [] textPosition = "center" -> height * 50
      [] OTHER -> height * 85

\* calculateTextPosition: the vertical anchor is the share of the height
\* that textPosition names, the horizontal anchor half the width, for every
\* span
PositionsByShare ==
    textAnimations.called =>
        \A k \in DOMAIN textAnimations.list :
            textAnimations.list[k].position =
                [x |-> options.resolution.width * 50,
                 y |-> AnchorOfShare(style.textPosition, options.resolution.height)]

\* C24 (as stated): every layout entry has its vertical anchor at the share
\* of the height that textPosition names, whatever the span's index, its
\* horizontal anchor at half the width and maxWidth at 90% of the width.
LayoutByShare ==
    /\ PositionsByShare
    /\ layout.laidOut =>
        \A k \in DOMAIN layout.layouts :
            /\ layout.layouts[k].position =
                    [x |-> engine.videoDimensions.width * 50,
                     y |-> AnchorOfShare(engine.style.textPosition,
                                         engine.videoDimensions.height)]
            /\ layout.layouts[k].maxWidth = engine.videoDimensions.width * 90

\* C24 (amended): in calculateTextLayout the horizontal anchor is half the
\* width and maxWidth 90% of the width, but the vertical anchor is counted in
\* pixels and depends on the span's index and the font size: top starts 50
\* below the upper edge and moves down one line height (1.5 fontSize) per
\* index, bottom starts 150 above the lower edge and moves up one line height
\* per index, center is half the height less half a line height, any other
\* value 150 above the lower edge.  The shares 10%, 50%, 85% of the
\* height are those of calculateTextPosition, for every span.
LayoutByIndex ==
    /\ PositionsByShare
    /\ layout.laidOut =>
        /\ Len(layout.layouts) = Len(words)
        /\ \A k \in DOMAIN layout.layouts :
            LET at == layout.layouts[k]
                height == engine.videoDimensions.height * 100
                line == engine.style.fontSize * 150
                place == engine.style.textPosition
            IN  /\ at.position.x * 2 = engine.videoDimensions.width * 100
                /\ at.maxWidth * 10 = engine.videoDimensions.width * 100 * 9
                /\ place = "top" => at.position.y = 5000 + (k - 1) * line
                /\ place = "bottom" => at.position.y = height - 15000 - (k - 1) * line
                /\ place = "center" => at.position.y * 2 = height - line
                /\ place \notin {"top", "bottom", "center"} => at.position.y = height - 15000

\* C24 witness: three spans were laid out from the top, each one line height
\* below the one before, and the renderer has placed the same three.
LayoutByIndexWitness ==
    /\ layout.laidOut /\ Len(layout.layouts) = 3
    /\ textAnimations.called /\ Len(textAnimations.list) = 3
    /\ engine.style.textPosition = "top"
    /\ layout.layouts[3].position.y > layout.layouts[2].position.y

\* ------------------------------------------------------ groupWordsIntoLines

RECURSIVE Flatten(_)
Flatten(lines) == IF lines = <<>> THEN <<>> ELSE Head(lines) \o Flatten(Tail(lines))

\* the estimated width of a line: text length x 0.6 x fontSize, summed
RECURSIVE LineWidth(_)
LineWidth(line) ==
    IF line = <<>> THEN 0
    ELSE words[Head(line)] * engine.style.fontSize * 6 + LineWidth(Tail(line))

\* C25: the lines, one after the other, are the spans in their order; no
\* line is empty; a line of more than one span is at most 80% of the canvas
\* wide; and a line ends only where the next span would have made it wider
\* than that.
GreedyPacking ==
    layout.grouped =>
        /\ Flatten(layout.lines) = [k \in DOMAIN words |-> k]
        /\ \A i \in DOMAIN layout.lines :
            /\ layout.lines[i] # <<>>
            /\ Len(layout.lines[i]) > 1 =>
                    LineWidth(layout.lines[i]) * 10 <= engine.videoDimensions.width * 80
            /\ i > 1 =>
                    (LineWidth(layout.lines[i - 1]) + LineWidth(<<Head(layout.lines[i])>>)) * 10
                        > engine.videoDimensions.width * 80

\* C25 witness: three spans went into two lines, the first line holding two.
GreedyPackingWitness ==
    /\ layout.grouped /\ Len(words) = 3
    /\ Len(layout.lines) = 2 /\ Len(layout.lines[1]) = 2

\* ------------------------------------------------------ extractKeywords

\* how often word w occurs among the words ws
Occurrences(w, ws) == Len(SelectSeq(ws, LAMBDA x : x = w))

\* where word w occurs first among the words ws
FirstOccurrence(w, ws) == CHOOSE i \in DOMAIN ws :
                            ws[i] = w /\ \A k \in 1..(i - 1) : ws[k] # w

\* C26: at most ten keywords, none twice, none a stop word, none of two
\* characters or fewer, each a word of the lyrics; they come by
\* non-increasing number of occurrences, words that occur equally often in
\* the order of their first occurrence.
KeywordsRanked ==
    keywords.called =>
        LET list == keywords.list
            ws == Words(texts)
            n == [i \in DOMAIN list |-> Occurrences(list[i], ws)]
            first == [i \in DOMAIN list |->
                        IF n[i] > 0 THEN FirstOccurrence(list[i], ws) ELSE 0]
        IN  /\ Len(list) <= 10
            /\ \A i, k \in DOMAIN list : i # k => list[i] # list[k]
            /\ \A i \in DOMAIN list :
                /\ list[i] \notin stopWords
                /\ Len(list[i]) > 2
                /\ n[i] > 0
            /\ \A i, k \in DOMAIN list : i < k =>
                /\ n[i] >= n[k]
                /\ n[i] = n[k] => first[i] < first[k]

\* C26 witness: lyrics of twelve different words gave ten keywords, the
\* first of them a word that occurs twice and not first in the lyrics.
KeywordsRankedWitness ==
    /\ keywords.called
    /\ Len(keywords.list) = 10
    /\ LET ws == Words(texts)
       IN  /\ Cardinality(Range(ws)) = 12
           /\ Occurrences(keywords.list[1], ws) = 2
           /\ FirstOccurrence(keywords.list[1], ws) > 1

\* ------------------------------------------------------ generateBackgroundVisuals

\* C27 (as stated): whatever the approach, the keys and the providers'
\* answers, generateBackgroundVisuals returns at least one clip.
NeverNoClips ==
    visuals.pc = "returned" => Len(visuals.videos) > 0

\* ------------------------------------------------------ RenderingQueue: wake-up and status

\* C28: a job submitted through addJob is started in the end, whenever it
\* was submitted, if every render settles and clearQueue is not called.
NoLostWakeUp ==
    \A j \in Jobs : (via[j] = "queue") ~> (j \in Range(startLog))

\* C28 witness: the second job, submitted after the first was started, was
\* itself started once the first had had its callback and the timer fired.
NoLostWakeUpWitness ==
    /\ startLog = <<1, 2>>
    /\ Len(doneLog) = 1 /\ doneLog[1].job = 1
    /\ timers = 0 /\ active = {2} /\ isProcessing

\* C29 (as stated): total is the number of submitted jobs without a terminal
\* callback, queued or running; position is 1 exactly when a job is
\* running; total is 0 once every job has had its callback.
StatusCountsLiveJobs ==
    /\ GetQueueStatus.total = Cardinality(QueueJobs \ Range(DoneJobs))
    /\ GetQueueStatus.position = 1 <=> active # {}
    /\ QueueJobs \subseteq Range(DoneJobs) => GetQueueStatus.total = 0

\* ------------------------------------------------------ AnimationEffects: keyframes

\* C30 (as stated): for a span with 0 <= start < end the keyframes of fade,
\* karaoke, bounce and slide come at non-decreasing times, and the last one
\* not before the span's end.
KeyframesInOrder ==
    (effect.called /\ 0 <= transcription.start /\ transcription.start < transcription.end) =>
        /\ \A i, k \in DOMAIN effect.keyframes :
                i < k => effect.keyframes[i].time <= effect.keyframes[k].time
        /\ Last(effect.keyframes).time >= transcription.end
====
